---- MODULE Spec2Model ----
(***************************************************************************)
(* SessionBackupManager (bot/utils/session_backup.py): the tree of live    *)
(* credential files, the mirrored backup tree, and the operations that     *)
(* copy between them, together with the external processes (the login      *)
(* client, the operator, the disk) that share the tree.                    *)
(*                                                                         *)
(* File names are sequences of tokens: a letter, a digit, "_", and the two *)
(* extensions ".session" and ".session.backup", each one token.  A path is *)
(* a record [root, dir, base]; the file system is a function from the      *)
(* paths that exist to [data, mtime].  Directories are not state: a        *)
(* missing directory and an empty one give the same glob result, and a     *)
(* directory that cannot be made is an input of the call (env.mkdir).      *)
(***************************************************************************)
EXTENDS Integers, Sequences, FiniteSets, TLC

VARIABLES fs, now, last, trip

vars == <<fs, now, last, trip>>

-----------------------------------------------------------------------------
(* Bounds of the model *)

\* seconds in one calendar day of the model's clock
SecsPerDay == 2
\* Spec: the clock runs 0..MaxTime, create_backup runs while fewer than MaxBackups exist
MaxTime == 1
MaxBackups == 2
\* SpecPair, the same
PairTime == 1
PairBackups == 2
\* SpecRetention, the same
RetentionTime == 5
RetentionBackups == 6
\* SpecRestore, the same
RestoreTime == 1
RestoreBackups == 3
\* SpecVerify: the clock runs 0..VerifyTime
VerifyTime == 2
\* SpecCreate: the clock runs 0..CreateTime, create_backup is called while fewer
\* than CreateBackups backup files exist
CreateTime == 1
CreateBackups == 2
\* SpecLayout, the same
LayoutTime == 1
LayoutBackups == 2
\* SpecFresh: the clock runs 0..FreshTime; create_all_backups is called while
\* fewer than FreshBackups backup files exist
PartialTime == 1
PartialBackups == 2
FreshTime == 1
FreshBackups == 6
\* SpecStrand: create_backup is called while fewer than StrandBackups backup
\* files exist
StrandBackups == 2
\* SpecUsable: create_backup is called while fewer than UsableBackups backup
\* files exist
UsableBackups == 2
\* SpecAll: create_all_backups is called while fewer than AllBackups backup
\* files exist
AllBackups == 2
\* SpecExists: create_backup is called while fewer than ExistsBackups backup files
\* exist
ExistsBackups == 2
\* SpecWal: create_backup is called while fewer than WalBackups backup files exist
WalBackups == 2
\* SpecTraversal: create_backup is called while fewer than TraversalBackups
\* backup files exist
TraversalBackups == 2
\* SpecLoop: create_backup is called while fewer than LoopBackups backup files
\* exist
LoopBackups == 1
\* SpecSidecar: create_backup is called while fewer than SidecarBackups backup
\* files exist
SidecarBackups == 2

(* Program constants *)

\* _safe_sqlite_copy: max_retries = 3
max_retries == 3
\* _verify_session_integrity: os.path.getsize(session_path) < 1024
MinSize == 1024
\* clean_old_backups(self, keep_count: int = 5)
DefaultKeepCount == 5

-----------------------------------------------------------------------------
(* Strings *)

SESSION == ".session"
SESSION_BACKUP == ".session.backup"
\* the write-ahead log and the shared-memory index SQLite keeps beside a database
\* a leading path component of a session name that steps to the parent directory
UP == "../"
WAL == "-wal"
SHM == "-shm"
Digits == <<"0", "1", "2", "3", "4", "5", "6", "7", "8", "9">>
DigitSet == {Digits[i] : i \in 1..Len(Digits)}

\* str.startswith
StartsWith(s, p) == Len(p) <= Len(s) /\ SubSeq(s, 1, Len(p)) = p

\* str.endswith
EndsWith(s, p) == Len(p) <= Len(s) /\ SubSeq(s, Len(s) - Len(p) + 1, Len(s)) = p

\* str.replace(tok, ''): every occurrence of the token removed
Remove(s, tok) == SelectSeq(s, LAMBDA c : c # tok)

\* str.isdigit(): non-empty and every character a digit
IsDigit(s) == Len(s) > 0 /\ \A i \in 1..Len(s) : s[i] \in DigitSet

\* str.rsplit('_', 1): <<s>> when s holds no "_", else <<before, after>> the last one
RSplitUnderscore(s) ==
    LET at == {i \in 1..Len(s) : s[i] = "_"}
    IN  IF at = {} THEN <<s>>
        ELSE LET k == CHOOSE i \in at : \A j \in at : j <= i
             IN  <<SubSeq(s, 1, k - 1), SubSeq(s, k + 1, Len(s))>>

\* fnmatch of f"{session_name}*.session.backup" against a basename
GlobNameStar(session_name, basename) ==
    /\ Len(basename) >= Len(session_name) + 1
    /\ StartsWith(basename, session_name)
    /\ EndsWith(basename, <<SESSION_BACKUP>>)

\* fnmatch of "*.session.backup" against a basename
GlobAnyBackup(basename) == EndsWith(basename, <<SESSION_BACKUP>>)

\* fnmatch of "*.session" against a basename
GlobAnySession(basename) == EndsWith(basename, <<SESSION>>)

\* datetime.now().strftime('%Y%m%d_%H%M%S'): the date digits, "_", the time digits
Timestamp(t) == <<Digits[(t \div SecsPerDay) + 1], "_", Digits[(t % SecsPerDay) + 1]>>

-----------------------------------------------------------------------------
(* Paths and files *)

\* the three layouts, in the order every method lists them
Layouts == <<".", "telethon", "pyrogram">>
LayoutSet == {Layouts[i] : i \in 1..Len(Layouts)}
LayoutIndex(d) == CHOOSE i \in 1..Len(Layouts) : Layouts[i] = d

None == [root |-> "none", dir |-> ".", base |-> <<>>]

\* the parent directory: backup_dir is sessions_path/backups (l.16), the layout
\* directories lie under their root, everything above sessions_path is "outside"
Up(p) ==
    IF p.dir # "." THEN [p EXCEPT !.dir = "."]
    ELSE IF p.root = "backups" THEN [p EXCEPT !.root = "sessions"]
    ELSE [p EXCEPT !.root = "outside"]

\* the file os.path.join(root, dir, base) names: the operating system resolves a
\* ".." directory and the leading "../" components of base (the layout
\* directories exist)
RECURSIVE Join(_)
Join(p) ==
    IF p.dir = ".." THEN Join(Up([p EXCEPT !.dir = "."]))
    ELSE IF p.base # <<>> /\ Head(p.base) = UP
    THEN Join([Up(p) EXCEPT !.base = Tail(p.base)])
    ELSE p

\* os.path.join(sessions_path[, layout], f"{session_name}.session")
LivePath(d, session_name) ==
    Join([root |-> "sessions", dir |-> d, base |-> session_name \o <<SESSION>>])

\* os.path.join(backup_subdir, backup_filename)
BackupPath(d, backup_filename) ==
    Join([root |-> "backups", dir |-> d, base |-> backup_filename])

IsBackupFile(p) == p.root = "backups" /\ GlobAnyBackup(p.base)
IsLiveFile(p) == p.root = "sessions" /\ GlobAnySession(p.base)

\* what a file holds: a database the login client wrote for `owner` at time `ver`, or damage
GoodData(owner, ver) ==
    [kind |-> "db", size |-> 4096, tables |-> 1, owner |-> owner, ver |-> ver]
EmptyData == [kind |-> "raw", size |-> 0, tables |-> 0, owner |-> <<>>, ver |-> 0]
GarbageData == [kind |-> "raw", size |-> 2000, tables |-> 0, owner |-> <<>>, ver |-> 0]
NoTablesData == [kind |-> "db", size |-> 4096, tables |-> 0, owner |-> <<>>, ver |-> 0]
SmallData == [kind |-> "db", size |-> 512, tables |-> 1, owner |-> <<>>, ver |-> 0]
Damage == {EmptyData, GarbageData, NoTablesData, SmallData}

\* a write-ahead log holding the committed pages of version ver, not yet in the
\* main file; the log after a checkpoint truncated it; the shared-memory index
WalData(owner, ver) ==
    [kind |-> "wal", size |-> 4096, tables |-> 0, owner |-> owner, ver |-> ver]
TruncatedWal == [kind |-> "wal", size |-> 0, tables |-> 0, owner |-> <<>>, ver |-> 0]
ShmData == [kind |-> "shm", size |-> 32768, tables |-> 0, owner |-> <<>>, ver |-> 0]

File(data, mtime) == [data |-> data, mtime |-> mtime]

Exists(F, p) == p \in DOMAIN F

\* F with path p holding file f
Put(F, p, f) == [q \in DOMAIN F \cup {p} |-> IF q = p THEN f ELSE F[q]]

\* F without path p
Drop(F, p) == [q \in DOMAIN F \ {p} |-> F[q]]

\* source + '-wal', source + '-shm'
Side(p, suffix) == [p EXCEPT !.base = p.base \o <<suffix>>]

BackupFiles(F) == {p \in DOMAIN F : IsBackupFile(p)}
LiveFiles(F) == {p \in DOMAIN F : IsLiveFile(p)}

-----------------------------------------------------------------------------
(* _is_file_locked, _safe_sqlite_copy, _verify_session_integrity *)

\* what the environment does to one attempt of _safe_sqlite_copy:
\*   "locked"  open(file_path, 'a') raises: the file is held by another process
\*   "error"   shutil.copy2 raises before it opens the destination
\*   "partial" shutil.copy2 raises after it has begun to write the destination
Faults == {"locked", "error", "partial"}

\* the fault of each attempt, in order; an attempt past the end of the plan meets none
FaultAt(plan, attempt) == IF attempt + 1 <= Len(plan) THEN plan[attempt + 1] ELSE "ok"

\* open(file_path, 'a') that succeeds: append mode creates a missing file, empty
AppendOpen(F, file_path, t) ==
    IF Exists(F, file_path) THEN F ELSE Put(F, file_path, File(EmptyData, t))

\* sqlite3 raises DatabaseError ("file is not a database"), which the handler
\* for sqlite3.OperationalError does not catch, on a non-empty file without structure
CheckpointRaises(f) == f.data.kind = "raw" /\ f.data.size > 0

\* who else has the database open while a method works on it:
\*   "no"    nobody: closing the last connection moves the log into the main file
\*           and removes both sidecars
\*   "open"  another connection, idle: a checkpoint moves the log and truncates it
\*   "busy"  another connection, reading: no page of the log can be moved
Holds == {"no", "open", "busy"}

\* the main file after the pages of its log were moved into it
Merged(F, db, t) ==
    IF /\ Exists(F, Side(db, WAL))
       /\ F[Side(db, WAL)].data.size > 0
       /\ F[db].data.kind = "db"
    THEN Put(F, db, File([F[db].data EXCEPT !.ver = F[Side(db, WAL)].data.ver], t))
    ELSE F

\* F without the sidecars of db
DropSides(F, db) == [q \in DOMAIN F \ {Side(db, WAL), Side(db, SHM)} |-> F[q]]

\* conn.close() on database db
CloseConnection(F, db, held, t) ==
    IF held = "no" /\ Exists(F, db) /\ F[db].data.kind = "db"
    THEN DropSides(Merged(F, db, t), db)
    ELSE F

\* sqlite3.connect, PRAGMA wal_checkpoint(TRUNCATE), commit, close on database db
Checkpoint(F, db, held, t) ==
    IF /\ held = "open"
       /\ Exists(F, Side(db, WAL))
       /\ F[Side(db, WAL)].data.size > 0
       /\ F[db].data.kind = "db"
    THEN Put(Merged(F, db, t), Side(db, WAL), File(TruncatedWal, t))
    ELSE CloseConnection(F, db, held, t)

\* the sidecars of source that exist and whose copy does not fail
SidesCopied(F, source, sidefail) ==
    {x \in {WAL, SHM} \ sidefail : Exists(F, Side(source, x))}

\* the two blocks `if os.path.exists(wal_file): try: shutil.copy2(...) except: pass`
CopySides(F, source, destination, sidefail) ==
    [q \in DOMAIN F \cup {Side(destination, x) : x \in SidesCopied(F, source, sidefail)} |->
        IF \E x \in SidesCopied(F, source, sidefail) : q = Side(destination, x)
        THEN F[Side(source, CHOOSE x \in SidesCopied(F, source, sidefail) :
                                q = Side(destination, x))]
        ELSE F[q]]

\* the bytes a copy leaves behind when it fails part-way
PartialData(data) ==
    [kind |-> "raw", size |-> 512, tables |-> 0, owner |-> data.owner, ver |-> data.ver]

\* a sidecar whose copy fails makes the copy fail (the mutant of SidecarVerdict)
SidecarVerdictStrict(main_ok, sidefail) == main_ok /\ sidefail = {}

\* `except Exception: pass` around each sidecar copy: the result is the main copy's
SidecarVerdict(main_ok, sidefail) == main_ok

\* a failed attempt always sleeps and goes round again (the mutant of CanRetry
\* for the bound on the sleeps)
CanRetryAlways(attempt) == TRUE

\* a failed attempt gives up after one attempt fewer (the mutant of CanRetry)
CanRetryShort(attempt) == attempt < max_retries - 2

\* `if attempt < max_retries - 1`: a failed attempt sleeps and goes round again
CanRetry(attempt) == attempt < max_retries - 1

\* one pass of the loop `for attempt in range(max_retries)`, and the passes after it;
\* env.plan: the fault of each attempt, env.held: who else has the source open,
\* env.sidefail: the sidecars whose copy raises;
\* wrote: the paths created or overwritten, sleeps: the calls of time.sleep(retry_delay)
RECURSIVE SafeCopyAttempt(_, _, _, _, _, _, _)
SafeCopyAttempt(F, source, destination, env, attempt, t, acc) ==
    IF attempt >= max_retries
    THEN [ok |-> FALSE, fs |-> F, wrote |-> acc.wrote,
          attempts |-> attempt, sleeps |-> acc.sleeps, copied |-> FALSE]
    ELSE
    LET fault == FaultAt(env.plan, attempt)
        lastTry == ~CanRetry(attempt)
        Retry(G, w) ==
            IF lastTry
            THEN [ok |-> FALSE, fs |-> G, wrote |-> w,
                  attempts |-> attempt + 1, sleeps |-> acc.sleeps, copied |-> FALSE]
            ELSE SafeCopyAttempt(G, source, destination, env, attempt + 1, t,
                                 [wrote |-> w, sleeps |-> acc.sleeps + 1])
    IN  IF fault = "locked" THEN Retry(F, acc.wrote)
        ELSE
        LET F1 == AppendOpen(F, source, t)
            w1 == IF Exists(F, source) THEN acc.wrote ELSE acc.wrote \cup {source}
        IN  IF CheckpointRaises(F1[source]) THEN Retry(F1, w1)
            ELSE
            LET F2 == Checkpoint(F1, source, env.held, t)
            IN  IF fault = "error" THEN Retry(F2, w1)
                ELSE IF fault = "partial"
                THEN Retry(Put(F2, destination, File(PartialData(F2[source].data), t)),
                           w1 \cup {destination})
                ELSE
                LET F3 == Put(F2, destination, F2[source])
                IN  [ok |-> SidecarVerdict(TRUE, env.sidefail),
                     fs |-> CopySides(F3, source, destination, env.sidefail),
                     wrote |-> w1 \cup {destination}
                               \cup {Side(destination, x) :
                                        x \in SidesCopied(F3, source, env.sidefail)},
                     attempts |-> attempt + 1, sleeps |-> acc.sleeps, copied |-> TRUE]

_safe_sqlite_copy(F, source, destination, env, t) ==
    SafeCopyAttempt(F, source, destination, env, 0, t, [wrote |-> {}, sleeps |-> 0])

\* what the environment does during one integrity check:
\*   "gone"    the file is removed between os.path.exists and os.path.getsize
\*   "dberror" the query raises (the database is locked by a writer)
VerifyEnvs == {"none", "gone", "dberror"}

\* res is "true", "false", or "raise" when an exception leaves the method;
\* handles: the connections still open when the method returns. conn.close() is
\* the last statement before the result is looked at, and is skipped when the
\* query raises: a file without database structure, or "dberror"
_verify_session_integrity(F, session_path, venv, held, t) ==
    IF ~Exists(F, session_path) THEN [res |-> "false", fs |-> F, handles |-> {}]
    ELSE IF venv = "gone"
    THEN [res |-> "raise", fs |-> Drop(F, session_path), handles |-> {}]
    ELSE IF F[session_path].data.size < MinSize
    THEN [res |-> "false", fs |-> F, handles |-> {}]
    ELSE IF venv = "dberror" \/ F[session_path].data.kind # "db"
    THEN [res |-> "false", fs |-> F, handles |-> {session_path}]
    ELSE [res |-> IF F[session_path].data.tables = 0 THEN "false" ELSE "true",
          fs |-> CloseConnection(F, session_path, held, t), handles |-> {}]

-----------------------------------------------------------------------------
(* get_session_file_path, create_backup *)

\* the candidates listed pyrogram first (the mutant of patterns)
patterns_reversed(session_name) ==
    [i \in 1..Len(Layouts) |-> LivePath(Layouts[Len(Layouts) + 1 - i], session_name)]

\* the list `patterns`: flat, telethon, pyrogram
patterns(session_name) == [i \in 1..Len(Layouts) |-> LivePath(Layouts[i], session_name)]

\* the first pattern that exists, or None
get_session_file_path(F, session_name) ==
    LET hits == {i \in 1..Len(Layouts) : Exists(F, patterns(session_name)[i])}
    IN  IF hits = {} THEN None
        ELSE patterns(session_name)[CHOOSE i \in hits : \A j \in hits : i <= j]

\* f"{session_name}_{timestamp}.session.backup" or f"{session_name}.session.backup"
backup_filename(session_name, use_timestamp, t) ==
    IF use_timestamp
    THEN session_name \o <<"_">> \o Timestamp(t) \o <<SESSION_BACKUP>>
    ELSE session_name \o <<SESSION_BACKUP>>

\* the relative directory ignored: always the root itself (the mutant of MirrorDir)
MirrorDirFlat(p, root) == "."

\* os.path.relpath(os.path.dirname(file), root), joined under the other root;
\* ".." for a file in the parent directory of root
MirrorDir(p, root) == IF p.root = root THEN p.dir ELSE ".."

\* what the environment does during one create_backup:
\*   race  "gone_locate": the live file is removed right after get_session_file_path
\*         "gone_verify": ... between os.path.exists and os.path.getsize of the check
\*         "gone_probe":  ... after the check, before _safe_sqlite_copy opens it
\*   mkdir "fail": os.makedirs(backup_subdir) raises
\*   plan  the faults of _safe_sqlite_copy's attempts
NoResult(F, res, src, verified) ==
    [res |-> res, fs |-> F, src |-> src, dst |-> None, verified |-> verified,
     wrote |-> {}, attempts |-> 0, sleeps |-> 0, copied |-> FALSE, handles |-> {}]

create_backup(F, session_name, use_timestamp, env, t) ==
    LET session_file == get_session_file_path(F, session_name)
    IN  IF session_file = None THEN NoResult(F, "false", None, "none")
        ELSE IF env.race = "gone_locate"
        THEN NoResult(Drop(F, session_file), "false", session_file, "none")
        ELSE
        LET v == _verify_session_integrity(
                     F, session_file,
                     IF env.race = "gone_verify" THEN "gone" ELSE env.venv, env.held, t)
        IN  IF v.res # "true"
            THEN [NoResult(v.fs, v.res, session_file, v.res) EXCEPT !.handles = v.handles]
            ELSE IF env.mkdir = "fail" THEN NoResult(v.fs, "raise", session_file, "true")
            ELSE
            LET backup_path ==
                    BackupPath(MirrorDir(session_file, "sessions"),
                               backup_filename(session_name, use_timestamp, t))
                F1 == IF env.race = "gone_probe" THEN Drop(v.fs, session_file) ELSE v.fs
                c == _safe_sqlite_copy(F1, session_file, backup_path, env, t)
            IN  [res |-> IF c.ok THEN "true" ELSE "false", fs |-> c.fs,
                 src |-> session_file, dst |-> backup_path, verified |-> "true",
                 wrote |-> c.wrote, attempts |-> c.attempts, sleeps |-> c.sleeps,
                 copied |-> c.copied, handles |-> {}]

-----------------------------------------------------------------------------
(* the order of a glob result and of list.sort(key=os.path.getmtime, reverse=True) *)

\* the sort without reverse=True: oldest first (the mutant of Precedes)
PrecedesOldestFirst(F, a, b, by_mtime) ==
    \/ by_mtime /\ F[a].mtime < F[b].mtime
    \/ /\ by_mtime => F[a].mtime = F[b].mtime
       /\ LayoutIndex(a.dir) < LayoutIndex(b.dir)

\* a comes before b in every order the code can produce: the globs run layout by
\* layout, the order inside one directory is the operating system's, and the sort
\* is stable; two files of one directory with one mtime come in either order
Precedes(F, a, b, by_mtime) ==
    \/ by_mtime /\ F[a].mtime > F[b].mtime
    \/ /\ by_mtime => F[a].mtime = F[b].mtime
       /\ LayoutIndex(a.dir) < LayoutIndex(b.dir)

\* every sequence of the files of S that the code can hold after the globs (and the sort)
RECURSIVE Orders(_, _, _)
Orders(F, S, by_mtime) ==
    IF S = {} THEN {<<>>}
    ELSE UNION {
           {<<m>> \o rest : rest \in Orders(F, S \ {m}, by_mtime)} :
           m \in {x \in S : \A y \in S : ~Precedes(F, y, x, by_mtime)}}

-----------------------------------------------------------------------------
(* restore_from_backup, backup_exists *)

\* the glob without the session name: "*.session.backup" (the mutant of all_backups)
all_backups_any_name(F, session_name) ==
    {p \in DOMAIN F : /\ p.root = "backups"
                      /\ p.dir \in LayoutSet
                      /\ GlobAnyBackup(p.base)}

\* glob.glob(f"{session_name}*.session.backup") in the three backup directories
all_backups(F, session_name) ==
    {p \in DOMAIN F :
         \E d \in LayoutSet :
             LET pattern == BackupPath(d, session_name)
             IN  /\ p.root = pattern.root
                 /\ p.dir = pattern.dir
                 /\ GlobNameStar(pattern.base, p.base)}

\* the loop `for backup_file in all_backups`, from position i of the order;
\* env.bad holds the positions whose copy meets env.plan, env.mkdir as in create_backup
RECURSIVE RestoreLoop(_, _, _, _, _, _)
RestoreLoop(F, session_name, order, i, env, t) ==
    IF i > Len(order)
    THEN [res |-> "false", fs |-> F, src |-> None, dst |-> None, wrote |-> {},
          tried |-> Len(order), attempts |-> 0, sleeps |-> 0, handles |-> {}]
    ELSE
    LET backup_file == order[i]
        v == _verify_session_integrity(F, backup_file, "none", env.held, t)
        After(r, w, a, z, h) ==
            [r EXCEPT !.wrote = @ \cup w, !.attempts = @ + a, !.sleeps = @ + z,
                      !.handles = @ \cup h]
    IN  IF v.res # "true"
        THEN After(RestoreLoop(v.fs, session_name, order, i + 1, env, t),
                   {}, 0, 0, v.handles)
        ELSE IF env.mkdir = "fail"
        THEN [res |-> "raise", fs |-> v.fs, src |-> backup_file, dst |-> None,
              wrote |-> {}, tried |-> i, attempts |-> 0, sleeps |-> 0,
              handles |-> {}]
        ELSE
        LET target_path == LivePath(MirrorDir(backup_file, "backups"), session_name)
            c == _safe_sqlite_copy(
                     v.fs, backup_file, target_path,
                     [env EXCEPT !.plan = IF i \in env.bad THEN env.plan ELSE <<>>], t)
        IN  IF c.ok
            THEN [res |-> "true", fs |-> c.fs, src |-> backup_file,
                  dst |-> target_path, wrote |-> c.wrote, tried |-> i,
                  attempts |-> c.attempts, sleeps |-> c.sleeps, handles |-> {}]
            ELSE After(RestoreLoop(c.fs, session_name, order, i + 1, env, t),
                       c.wrote, c.attempts, c.sleeps, {})

\* order: the list all_backups as the globs (and the sort) left it;
\* env.race = "gone_sort": env.victim is removed before the sort reads its mtime
restore_from_backup(F, session_name, use_latest, order, env, t) ==
    IF order = <<>>
    THEN [res |-> "false", fs |-> F, src |-> None, dst |-> None, wrote |-> {},
          tried |-> 0, attempts |-> 0, sleeps |-> 0, handles |-> {}]
    ELSE IF use_latest /\ Len(order) > 1 /\ env.race = "gone_sort"
    THEN [res |-> "raise", fs |-> Drop(F, env.victim), src |-> None, dst |-> None,
          wrote |-> {}, tried |-> 0, attempts |-> 0, sleeps |-> 0, handles |-> {}]
    ELSE RestoreLoop(F, session_name, order, 1, env, t)

\* the existence check with an integrity check added (the mutant of backup_exists)
backup_exists_valid(F, session_name) ==
    \E p \in all_backups(F, session_name) :
        _verify_session_integrity(F, p, "none", "no", 0).res = "true"

\* any file matching f"{session_name}*.session.backup" in a backup directory
backup_exists(F, session_name) ==
    \E i \in 1..Len(Layouts) :
        \E p \in DOMAIN F :
            LET pattern == BackupPath(Layouts[i], session_name)
            IN  /\ p.root = pattern.root
                /\ p.dir = pattern.dir
                /\ GlobNameStar(pattern.base, p.base)

-----------------------------------------------------------------------------
(* clean_old_backups *)

\* the session name the sweep reads out of a backup's basename
inferred_session_name(basename) ==
    LET parts == RSplitUnderscore(basename)
    IN  IF /\ Len(parts) = 2
           /\ IsDigit(Remove(Remove(parts[2], SESSION_BACKUP), "_"))
        THEN parts[1]
        ELSE Remove(basename, SESSION_BACKUP)

\* session_backups[session_name]
session_backups(F, session_name) ==
    {p \in BackupFiles(F) : inferred_session_name(p.base) = session_name}

\* the keys of the dictionary session_backups
session_names(F) == {inferred_session_name(p.base) : p \in BackupFiles(F)}

\* the sets that backups[keep_count:] can be for one group, sorted by mtime, newest first
Tails(F, group, keep_count) ==
    {T \in SUBSET group :
        /\ Cardinality(group \ T) = keep_count
        /\ \A a \in T : \A b \in group \ T : ~Precedes(F, a, b, TRUE)}

\* one tail for every group of `groups`, together
RECURSIVE TailsOfAll(_, _, _)
TailsOfAll(F, groups, keep_count) ==
    IF groups = {} THEN {{}}
    ELSE LET g == CHOOSE x \in groups : TRUE
         IN  {T \cup R : T \in Tails(F, g, keep_count),
                         R \in TailsOfAll(F, groups \ {g}, keep_count)}

\* the files the sweep is to delete: only a group longer than keep_count loses any
OldBackups(F, keep_count) ==
    TailsOfAll(F,
               {g \in {session_backups(F, n) : n \in session_names(F)} :
                    ~(Cardinality(g) <= keep_count)},
               keep_count)

\* the files of S and those of their sidecars that exist:
\* os.remove(old_backup), then the -wal and the -shm `if os.path.exists`
WithSides(F, S) ==
    S \cup {q \in DOMAIN F : \E p \in S : q \in {Side(p, WAL), Side(p, SHM)}}

RECURSIVE DropAll(_, _)
DropAll(F, S) == IF S = {} THEN F ELSE LET p == CHOOSE x \in S : TRUE
                                       IN  DropAll(Drop(F, p), S \ {p})

\* old: the files past keep_count; env.stuck: the files whose os.remove raises;
\* env.race = "gone_sort": env.victim is removed before a sort reads its mtime
clean_old_backups(F, keep_count, old, env) ==
    IF old # {} /\ env.race = "gone_sort"
    THEN [res |-> "raise", count |-> 0, fs |-> Drop(F, env.victim), deleted |-> {}]
    ELSE [res |-> "count", count |-> Cardinality(old \ env.stuck),
          fs |-> DropAll(F, WithSides(F, old \ env.stuck)),
          deleted |-> old \ env.stuck]

-----------------------------------------------------------------------------
(* create_all_backups *)

\* a call that nothing disturbs
NoEnv == [race |-> "none", victim |-> None, mkdir |-> "ok", plan |-> <<>>,
          bad |-> {}, stuck |-> {}, venv |-> "none", held |-> "no", sidefail |-> {}]

\* every create_backup call counted, whatever it returned (the mutant of Counted)
CountedAttempted(res) == 1

\* `if self.create_backup(session_name): backed_up_count += 1`
Counted(res) == IF res = "true" THEN 1 ELSE 0

\* the two loops over the globbed files, from position i of their order; every
\* file gives create_backup(basename without ".session"); env.bad holds the
\* positions whose copy meets env.plan.  calls: what each call was given and did
RECURSIVE AllLoop(_, _, _, _, _)
AllLoop(acc, order, i, env, t) ==
    IF i > Len(order) THEN acc
    ELSE
    LET session_file == order[i]
        session_name == Remove(session_file.base, SESSION)
        b == create_backup(acc.fs, session_name, TRUE,
                           [env EXCEPT !.plan = IF i \in env.bad THEN env.plan
                                                ELSE <<>>], t)
    IN  AllLoop([fs |-> b.fs,
                 count |-> acc.count + Counted(b.res),
                 calls |-> Append(acc.calls,
                                  [file |-> session_file, name |-> session_name,
                                   src |-> b.src, dst |-> b.dst, res |-> b.res]),
                 handles |-> acc.handles \cup b.handles],
                order, i + 1, env, t)

\* loop: what the loops over the globbed files did; old: what the sweep, if it
\* runs, is to delete
create_all_backups(auto_cleanup, loop, old) ==
    IF auto_cleanup /\ loop.count > 0
    THEN [res |-> "count", count |-> loop.count, calls |-> loop.calls,
          handles |-> loop.handles, cleaned |-> TRUE,
          fs |-> clean_old_backups(loop.fs, DefaultKeepCount, old, NoEnv).fs]
    ELSE [res |-> "count", count |-> loop.count, calls |-> loop.calls,
          handles |-> loop.handles, cleaned |-> FALSE, fs |-> loop.fs]

-----------------------------------------------------------------------------
(* The state machine: the calls of the store and the processes around it *)

\* the record of the last call of the store: its arguments, what the environment
\* did during it (env), and what it returned and touched
NoCall == [op |-> "none", name |-> <<>>, flag |-> FALSE, keep |-> 0, env |-> NoEnv,
           res |-> "none", count |-> 0, src |-> None, dst |-> None,
           verified |-> "none", wrote |-> {}, attempts |-> 0, sleeps |-> 0,
           order |-> <<>>, tried |-> 0, copied |-> FALSE, handles |-> {},
           calls |-> <<>>, cleaned |-> FALSE]

\* the progress of one backup, delete, restore sequence on one identity
NoTrip == [stage |-> 0, name |-> <<>>, path |-> None, data |-> EmptyData]

\* one fault, repeated over the first k attempts
Plans == {[i \in 1..k |-> f] : k \in 0..max_retries, f \in Faults}

\* one disturbance per call
CreateEnvs ==
    {[NoEnv EXCEPT !.race = r] : r \in {"gone_locate", "gone_verify", "gone_probe"}}
    \cup {[NoEnv EXCEPT !.mkdir = "fail"]}
    \cup {[NoEnv EXCEPT !.plan = pl] : pl \in Plans}

\* no call of the store is waiting for its caller to take the result
Idle == last = NoCall

Init ==
    /\ fs = [p \in {} |-> File(EmptyData, 0)]
    /\ now = 0
    /\ last = NoCall
    /\ trip = NoTrip

\* _safe_sqlite_copy is inside its loop
Running == last.res \in {"probing", "copying", "sleeping"}

\* the caller takes the result of the call
Return ==
    /\ ~Idle
    /\ ~Running
    /\ last' = NoCall
    /\ UNCHANGED <<fs, now, trip>>

\* the clock advances
Tick(max_time) ==
    /\ Idle
    /\ now < max_time
    /\ now' = now + 1
    /\ last' = last
    /\ UNCHANGED <<fs, trip>>

\* the login client writes a credential file for its identity
ExtLogin(homes) ==
    \E p \in homes :
        /\ Idle
        /\ fs' = Put(fs, p, File(GoodData(Remove(p.base, SESSION), now), now))
        /\ fs' # fs
        /\ last' = last
        /\ trip' = NoTrip
        /\ UNCHANGED now

\* a live file or a backup file is damaged on disk
ExtDamage(live_damage, backup_damage) ==
    \E p \in DOMAIN fs :
        \E d \in IF IsLiveFile(p) THEN live_damage
                 ELSE IF IsBackupFile(p) THEN backup_damage ELSE {} :
            /\ Idle
            /\ fs' = Put(fs, p, File(d, now))
            /\ fs' # fs
            /\ last' = last
            /\ trip' = NoTrip
            /\ UNCHANGED now

\* the login client commits to a live database: the pages go to its write-ahead
\* log, which appears beside it with the shared-memory index
ExtWal ==
    \E p \in LiveFiles(fs) :
        /\ Idle
        /\ fs[p].data.kind = "db"
        /\ fs[p].data.tables > 0
        /\ fs' = Put(Put(fs, Side(p, WAL),
                         File(WalData(fs[p].data.owner, now + 10), now)),
                     Side(p, SHM), File(ShmData, now))
        /\ fs' # fs
        /\ last' = last
        /\ trip' = NoTrip
        /\ UNCHANGED now

\* a live file is deleted
ExtDelete ==
    \E p \in LiveFiles(fs) :
        /\ Idle
        /\ fs' = Drop(fs, p)
        /\ last' = last
        /\ trip' = IF trip.stage = 1 /\ trip.path = p
                   THEN [trip EXCEPT !.stage = 2] ELSE NoTrip
        /\ UNCHANGED now

VerifyIntegrity(paths) ==
    \E p \in paths, venv \in VerifyEnvs :
        LET r == _verify_session_integrity(fs, p, venv, "no", now)
        IN  /\ Idle
            /\ fs' = r.fs
            /\ last' = [NoCall EXCEPT !.op = "_verify_session_integrity",
                            !.env = [NoEnv EXCEPT !.venv = venv], !.res = r.res,
                            !.src = p, !.verified = r.res, !.handles = r.handles]
            /\ trip' = NoTrip
            /\ UNCHANGED now

GetSessionFilePath(names) ==
    \E n \in names :
        /\ Idle
        /\ last' = [NoCall EXCEPT !.op = "get_session_file_path", !.name = n,
                        !.res = IF get_session_file_path(fs, n) = None
                                THEN "none" ELSE "path",
                        !.src = get_session_file_path(fs, n)]
        /\ trip' = NoTrip
        /\ UNCHANGED <<fs, now>>

\* track: the call may start a backup, delete, restore sequence
CreateBackup(names, envs, cap, track) ==
    \E n \in names, use_timestamp \in BOOLEAN, env \in envs :
        LET r == create_backup(fs, n, use_timestamp, env, now)
        IN  /\ Idle
            /\ Cardinality(BackupFiles(fs)) < cap
            /\ fs' = r.fs
            /\ last' = [NoCall EXCEPT !.op = "create_backup", !.name = n,
                            !.flag = use_timestamp, !.env = env, !.res = r.res,
                            !.src = r.src, !.dst = r.dst, !.verified = r.verified,
                            !.wrote = r.wrote, !.attempts = r.attempts,
                            !.sleeps = r.sleeps, !.copied = r.copied,
                            !.handles = r.handles]
            /\ trip' = IF track /\ r.res = "true" /\ env = NoEnv
                       THEN [stage |-> 1, name |-> n, path |-> r.src,
                             data |-> fs[r.src].data]
                       ELSE NoTrip
            /\ UNCHANGED now

\* the positions of the candidate list that pass the integrity check: the ones
\* whose copy the loop attempts when it reaches them
Attempted(F, order) ==
    {i \in 1..Len(order) :
         _verify_session_integrity(F, order[i], "none", "no", 0).res = "true"}

\* bad: the positions of the candidate list whose copy fails in all its attempts.
\* The loop stops at the first copy that succeeds, so the copies that fail in a
\* call are the first k it attempts.
RestoreEnvs(F, order, faults) ==
    {NoEnv}
    \cup (IF faults = {} THEN {} ELSE {[NoEnv EXCEPT !.mkdir = "fail"]})
    \cup {[NoEnv EXCEPT !.race = "gone_sort", !.victim = order[i]] :
             i \in IF faults = {} THEN {} ELSE 1..Len(order)}
    \cup {[NoEnv EXCEPT !.bad = {i \in Attempted(F, order) :
                                    Cardinality({j \in Attempted(F, order) : j <= i}) <= k},
                        !.plan = [i \in 1..max_retries |-> f]] :
             k \in 1..Cardinality(Attempted(F, order)), f \in faults}

RestoreFromBackup(names, flags, faults) ==
    \E n \in names, use_latest \in flags :
        \E order \in Orders(fs, all_backups(fs, n), use_latest) :
            \E env \in RestoreEnvs(fs, order, faults) :
                LET r == restore_from_backup(fs, n, use_latest, order, env, now)
                IN  /\ Idle
                    /\ fs' = r.fs
                    /\ last' = [NoCall EXCEPT !.op = "restore_from_backup",
                                    !.name = n, !.flag = use_latest, !.env = env,
                                    !.res = r.res, !.src = r.src, !.dst = r.dst,
                                    !.wrote = r.wrote, !.order = order,
                                    !.tried = r.tried, !.attempts = r.attempts,
                                    !.sleeps = r.sleeps, !.handles = r.handles]
                    /\ trip' = IF /\ trip.stage = 2 /\ trip.name = n
                                  /\ env = NoEnv /\ use_latest
                               THEN [trip EXCEPT !.stage = 3] ELSE NoTrip
                    /\ UNCHANGED now

BackupExists(names) ==
    \E n \in names :
        /\ Idle
        /\ last' = [NoCall EXCEPT !.op = "backup_exists", !.name = n,
                        !.res = IF backup_exists(fs, n) THEN "true" ELSE "false"]
        /\ trip' = NoTrip
        /\ UNCHANGED <<fs, now>>

\* the source of some of the calls stays locked through all their attempts
AllEnvs(order) ==
    {[NoEnv EXCEPT !.bad = B,
                   !.plan = IF B = {} THEN <<>>
                            ELSE [i \in 1..max_retries |-> "locked"]] :
         B \in SUBSET (1..Len(order))}

CreateAllBackups(cap) ==
    \E auto_cleanup \in BOOLEAN :
        \E order \in Orders(fs, LiveFiles(fs), FALSE) :
            \E env \in AllEnvs(order) :
                \E loop \in {AllLoop([fs |-> fs, count |-> 0, calls |-> <<>>,
                                      handles |-> {}], order, 1, env, now)} :
                    \E old \in OldBackups(loop.fs, DefaultKeepCount) :
                        \E r \in {create_all_backups(auto_cleanup, loop, old)} :
                            /\ Idle
                            /\ Cardinality(BackupFiles(fs)) < cap
                            /\ fs' = r.fs
                            /\ last' = [NoCall EXCEPT
                                            !.op = "create_all_backups",
                                            !.flag = auto_cleanup, !.env = env,
                                            !.res = r.res, !.count = r.count,
                                            !.order = order, !.calls = r.calls,
                                            !.cleaned = r.cleaned,
                                            !.handles = r.handles]
                            /\ trip' = NoTrip
                            /\ UNCHANGED now

CleanEnvs(old, disturbed) ==
    {[NoEnv EXCEPT !.stuck = st] : st \in IF disturbed THEN SUBSET old ELSE {{}}}
    \cup {[NoEnv EXCEPT !.race = "gone_sort", !.victim = v] :
             v \in IF disturbed THEN old ELSE {}}

CleanOldBackups(keep_counts, disturbed) ==
    \E keep_count \in keep_counts :
        \E old \in OldBackups(fs, keep_count) :
            \E env \in CleanEnvs(old, disturbed) :
                LET r == clean_old_backups(fs, keep_count, old, env)
                IN  /\ Idle
                    /\ fs' = r.fs
                    /\ last' = [NoCall EXCEPT !.op = "clean_old_backups",
                                    !.keep = keep_count, !.env = env,
                                    !.res = r.res, !.count = r.count,
                                    !.wrote = r.deleted]
                    /\ trip' = NoTrip
                    /\ UNCHANGED now

-----------------------------------------------------------------------------
(* Spec: one identity, kept in the telethon layout, every public method, with
   the failures of the operating system during a call; copy faults in every
   pattern in create_backup, a locked source in restore_from_backup *)

Names == {<<"a">>}
Homes == {LivePath("telethon", <<"a">>)}
KeepCounts == {1, DefaultKeepCount}

Next ==
    \/ Tick(MaxTime)
    \/ ExtLogin(Homes)
    \/ ExtDamage({NoTablesData}, {})
    \/ ExtDelete
    \/ GetSessionFilePath(Names)
    \/ CreateBackup(Names, CreateEnvs, MaxBackups, FALSE)
    \/ RestoreFromBackup(Names, BOOLEAN, {"locked"})
    \/ BackupExists(Names)
    \/ CleanOldBackups(KeepCounts, TRUE)
    \/ Return

Spec == Init /\ [][Next]_vars

-----------------------------------------------------------------------------
(* SpecPair: two identities, the name of one a prefix of the other's, in two
   layouts; restore is disturbed, create_backup is not *)

PairNames == {<<"a">>, <<"a", "b">>}
PairHomes == {LivePath(".", <<"a">>), LivePath("telethon", <<"a", "b">>)}

NextPair ==
    \/ Tick(PairTime)
    \/ ExtLogin(PairHomes)
    \/ ExtDelete
    \/ GetSessionFilePath(PairNames)
    \/ CreateBackup(PairNames, {NoEnv}, PairBackups, TRUE)
    \/ RestoreFromBackup(PairNames, BOOLEAN, {"error"})
    \/ BackupExists(PairNames)
    \/ CleanOldBackups({1}, FALSE)
    \/ Return

SpecPair == Init /\ [][NextPair]_vars

-----------------------------------------------------------------------------
(* SpecCreate: one identity, create_backup under every disturbance *)

NextCreate ==
    \/ Tick(CreateTime)
    \/ ExtLogin(Homes)
    \/ ExtDamage({NoTablesData}, {})
    \/ ExtDelete
    \/ CreateBackup(Names, CreateEnvs, CreateBackups, FALSE)
    \/ Return

SpecCreate == Init /\ [][NextCreate]_vars

-----------------------------------------------------------------------------
(* SpecLayout: the two identities of SpecPair in their two layouts, no
   disturbance *)

NextLayout ==
    \/ Tick(LayoutTime)
    \/ ExtLogin(PairHomes)
    \/ ExtDelete
    \/ CreateBackup(PairNames, {NoEnv}, LayoutBackups, FALSE)
    \/ RestoreFromBackup(PairNames, BOOLEAN, {})
    \/ Return

SpecLayout == Init /\ [][NextLayout]_vars

-----------------------------------------------------------------------------
(* SpecRestore: one identity, three backups, damaged backups and failing
   copies, restore of the latest *)

NextRestore ==
    \/ Tick(RestoreTime)
    \/ ExtLogin(Homes)
    \/ ExtDamage({}, {GarbageData})
    \/ ExtDelete
    \/ CreateBackup(Names, {NoEnv}, RestoreBackups, FALSE)
    \/ RestoreFromBackup(Names, {TRUE}, {"error"})
    \/ Return

SpecRestore == Init /\ [][NextRestore]_vars

-----------------------------------------------------------------------------
(* SpecRetention: one identity, backups over several days, the sweep *)

RetentionHomes == {LivePath(".", <<"a">>)}

NextRetention ==
    \/ Tick(RetentionTime)
    \/ ExtLogin(RetentionHomes)
    \/ CreateBackup(Names, {NoEnv}, RetentionBackups, FALSE)
    \/ CleanOldBackups({1, DefaultKeepCount}, FALSE)
    \/ Return

SpecRetention == Init /\ [][NextRetention]_vars

-----------------------------------------------------------------------------
(* SpecVerify: the integrity check on one path, over every kind of file *)

NextVerify ==
    \/ Tick(VerifyTime)
    \/ ExtLogin(RetentionHomes)
    \/ ExtDamage(Damage, {})
    \/ ExtDelete
    \/ VerifyIntegrity(RetentionHomes)
    \/ Return

SpecVerify == Init /\ [][NextVerify]_vars

-----------------------------------------------------------------------------
(* SpecSidecar: one identity whose live database has a write-ahead log, held or
   not by the client that wrote it; sidecar copies that fail; all within one
   second *)

SidecarEnvs ==
    {[NoEnv EXCEPT !.held = h, !.sidefail = sf, !.plan = pl] :
        h \in Holds, sf \in SUBSET {WAL, SHM},
        pl \in {<<>>, <<"error", "error">>, <<"error", "error", "error">>}}

NextSidecar ==
    \/ ExtLogin(RetentionHomes)
    \/ ExtWal
    \/ CreateBackup(Names, SidecarEnvs, SidecarBackups, FALSE)
    \/ Return

SpecSidecar == Init /\ [][NextSidecar]_vars

-----------------------------------------------------------------------------
(* SpecLoop: _safe_sqlite_copy one step of its loop at a time: the lock probe,
   the checkpoint and the copy, the sleep before the next pass.  While it runs,
   last.res is the position in the loop, last.attempts the passes begun,
   last.sleeps the calls of time.sleep(retry_delay). *)

\* what follows a failed pass: `if attempt < max_retries - 1: sleep; continue`,
\* else `return False`
AfterFailure(attempt) == IF CanRetry(attempt) THEN "sleeping" ELSE "false"

\* _safe_sqlite_copy(source, destination) is called on a live file
LoopStart(plans) ==
    \E source \in LiveFiles(fs), pl \in plans :
        /\ Idle
        /\ last' = [NoCall EXCEPT !.op = "_safe_sqlite_copy", !.src = source,
                        !.dst = BackupPath(MirrorDir(source, "sessions"),
                                           Remove(source.base, SESSION)
                                               \o <<SESSION_BACKUP>>),
                        !.env = [NoEnv EXCEPT !.plan = pl], !.res = "probing"]
        /\ UNCHANGED <<fs, now, trip>>

\* `if self._is_file_locked(source)` of pass number last.attempts
LoopProbe ==
    /\ last.res = "probing"
    /\ LET attempt == last.attempts
           locked == FaultAt(last.env.plan, attempt) = "locked"
       IN  /\ last' = [last EXCEPT
                         !.attempts = attempt + 1,
                         !.res = IF locked THEN AfterFailure(attempt) ELSE "copying",
                         !.wrote = IF locked \/ Exists(fs, last.src)
                                   THEN @ ELSE @ \cup {last.src}]
           /\ fs' = IF locked THEN fs ELSE AppendOpen(fs, last.src, now)
    /\ UNCHANGED <<now, trip>>

\* the checkpoint, shutil.copy2 of the main file and of the sidecars
LoopCopy ==
    /\ last.res = "copying"
    /\ LET attempt == last.attempts - 1
           fault == FaultAt(last.env.plan, attempt)
           F2 == Checkpoint(fs, last.src, last.env.held, now)
       IN  IF CheckpointRaises(fs[last.src])
           THEN /\ last' = [last EXCEPT !.res = AfterFailure(attempt)]
                /\ fs' = fs
           ELSE IF fault = "error"
           THEN /\ last' = [last EXCEPT !.res = AfterFailure(attempt)]
                /\ fs' = F2
           ELSE IF fault = "partial"
           THEN /\ last' = [last EXCEPT !.res = AfterFailure(attempt),
                                        !.wrote = @ \cup {last.dst}]
                /\ fs' = Put(F2, last.dst, File(PartialData(F2[last.src].data), now))
           ELSE /\ last' = [last EXCEPT !.res = "true", !.copied = TRUE,
                                        !.wrote = @ \cup {last.dst}]
                /\ fs' = CopySides(Put(F2, last.dst, F2[last.src]), last.src,
                                   last.dst, last.env.sidefail)
    /\ UNCHANGED <<now, trip>>

\* time.sleep(retry_delay); continue: the next pass, or the end of range(max_retries)
LoopSleep ==
    /\ last.res = "sleeping"
    /\ last' = [last EXCEPT !.sleeps = @ + 1,
                            !.res = IF last.attempts >= max_retries
                                    THEN "false" ELSE "probing"]
    /\ UNCHANGED <<fs, now, trip>>

NextLoop ==
    \/ ExtLogin(RetentionHomes)
    \/ ExtDamage({GarbageData}, {})
    \/ LoopStart(Plans)
    \/ LoopProbe
    \/ LoopCopy
    \/ LoopSleep
    \/ CreateBackup(Names, CreateEnvs, LoopBackups, FALSE)
    \/ RestoreFromBackup(Names, {TRUE}, {"locked"})
    \/ Return

\* a call that has begun is not abandoned: each step of the loop is taken
SpecLoop ==
    /\ Init
    /\ [][NextLoop]_vars
    /\ WF_vars(LoopProbe)
    /\ WF_vars(LoopCopy)
    /\ WF_vars(LoopSleep)

-----------------------------------------------------------------------------
(* SpecLocate: two names, each logged in under any of the three layouts, and
   get_session_file_path. *)

LocateHomes == {LivePath(d, n) : d \in LayoutSet, n \in PairNames}

NextLocate ==
    \/ ExtLogin(LocateHomes)
    \/ ExtDelete
    \/ GetSessionFilePath(PairNames)
    \/ Return

SpecLocate == Init /\ [][NextLocate]_vars

-----------------------------------------------------------------------------
(* SpecTraversal: a caller passes a name that begins with "../"; a file
   e.session lies in the parent directory of sessions_path. *)

TraversalNames == {<<"a">>, <<UP, "e">>}
TraversalHomes == {LivePath(".", n) : n \in TraversalNames}

NextTraversal ==
    \/ ExtLogin(TraversalHomes)
    \/ GetSessionFilePath(TraversalNames)
    \/ CreateBackup(TraversalNames, {NoEnv}, TraversalBackups, FALSE)
    \/ RestoreFromBackup(TraversalNames, {TRUE}, {})
    \/ Return

SpecTraversal == Init /\ [][NextTraversal]_vars

-----------------------------------------------------------------------------
(* SpecWal: a backup is taken of a database in write-ahead-log mode, with or
   without a reader holding the log, and restored later. *)

WalEnvs == {[NoEnv EXCEPT !.held = h] : h \in {"no", "busy"}}

NextWal ==
    \/ ExtLogin(RetentionHomes)
    \/ ExtWal
    \/ ExtDelete
    \/ CreateBackup(Names, WalEnvs, WalBackups, FALSE)
    \/ RestoreFromBackup(Names, BOOLEAN, {})
    \/ Return

SpecWal == Init /\ [][NextWal]_vars

-----------------------------------------------------------------------------
(* SpecExists: backups of two identities in two layouts, damaged on disk or not,
   and backup_exists. *)

NextExists ==
    \/ ExtLogin(PairHomes)
    \/ ExtDamage({}, Damage)
    \/ CreateBackup(PairNames, {NoEnv}, ExistsBackups, FALSE)
    \/ BackupExists(PairNames)
    \/ Return

SpecExists == Init /\ [][NextExists]_vars

-----------------------------------------------------------------------------
(* SpecAll: one identity logged in under two layouts, another under the third,
   live files damaged or not, and create_all_backups. *)

AllHomes == {LivePath(".", <<"a">>), LivePath("telethon", <<"a">>),
             LivePath("pyrogram", <<"a", "b">>)}

NextAll ==
    \/ ExtLogin(AllHomes)
    \/ ExtDamage({GarbageData}, {})
    \/ ExtDelete
    \/ CreateAllBackups(AllBackups)
    \/ Return

SpecAll == Init /\ [][NextAll]_vars

-----------------------------------------------------------------------------
(* SpecUsable: one identity whose credential file may lie in the flat and in the
   telethon layout, damaged or not; backups are taken and restored. *)

UsableHomes == {LivePath(".", <<"a">>), LivePath("telethon", <<"a">>)}

NextUsable ==
    \/ ExtLogin(UsableHomes)
    \/ ExtDamage({GarbageData}, {})
    \/ ExtDelete
    \/ CreateBackup(Names, {NoEnv}, UsableBackups, FALSE)
    \/ RestoreFromBackup(Names, {TRUE}, {})
    \/ Return

SpecUsable == Init /\ [][NextUsable]_vars

-----------------------------------------------------------------------------
(* SpecStrand: two identities whose names differ in the digits after their last
   underscore; backups are taken and swept. *)

StrandNames == {<<"user", "_", "1">>, <<"user", "_", "2">>}
StrandHomes == {LivePath(".", n) : n \in StrandNames}

NextStrand ==
    \/ ExtLogin(StrandHomes)
    \/ ExtDelete
    \/ CreateBackup(StrandNames, {NoEnv}, StrandBackups, FALSE)
    \/ CleanOldBackups({1}, FALSE)
    \/ Return

SpecStrand == Init /\ [][NextStrand]_vars

-----------------------------------------------------------------------------
(* SpecFresh: one identity that has logged in under each of the three layouts,
   its files deleted in turn, backed up over two seconds of one day by
   create_all_backups with its sweep. *)

FreshHomes == {LivePath(d, <<"a">>) : d \in LayoutSet}

NextFresh ==
    \/ Tick(FreshTime)
    \/ ExtLogin(FreshHomes)
    \/ ExtDelete
    \/ CreateAllBackups(FreshBackups)
    \/ Return

SpecFresh == Init /\ [][NextFresh]_vars

-----------------------------------------------------------------------------
(* SpecPartial: one identity; during a restore shutil.copy2 breaks off after it
   has begun to write the live file, for the first candidates or for all. *)

NextPartial ==
    \/ Tick(PartialTime)
    \/ ExtLogin(Homes)
    \/ ExtDamage({NoTablesData}, {})
    \/ ExtDelete
    \/ CreateBackup(Names, {NoEnv}, PartialBackups, FALSE)
    \/ RestoreFromBackup(Names, {TRUE}, {"partial"})
    \/ Return

SpecPartial == Init /\ [][NextPartial]_vars

-----------------------------------------------------------------------------
(* What the claims speak of *)

\* a file that is a database of at least MinSize bytes with a schema object
ValidData(data) == data.size >= MinSize /\ data.kind = "db" /\ data.tables >= 1

\* the paths that hold in G a file they did not hold in F
Written(F, G) == {p \in DOMAIN G : ~Exists(F, p) \/ F[p] # G[p]}

\* X_<date>_<time>.session.backup or X.session.backup
OwnName(basename, X) ==
    \/ basename = X \o <<SESSION_BACKUP>>
    \/ /\ Len(basename) = Len(X) + 5
       /\ SubSeq(basename, 1, Len(X)) = X
       /\ basename[Len(X) + 1] = "_"
       /\ basename[Len(X) + 2] \in DigitSet
       /\ basename[Len(X) + 3] = "_"
       /\ basename[Len(X) + 4] \in DigitSet
       /\ basename[Len(X) + 5] = SESSION_BACKUP

\* the backup entries of identity X, in the three backup directories
OwnedBy(F, X) == {p \in DOMAIN F : p.root = "backups" /\ OwnName(p.base, X)}

\* the backup files whose name starts with X and ends with the backup extension
Matching(F, X) ==
    {p \in DOMAIN F : /\ p.root = "backups"
                      /\ Len(p.base) > Len(X)
                      /\ SubSeq(p.base, 1, Len(X)) = X
                      /\ p.base[Len(p.base)] = SESSION_BACKUP}

OnlyPlan(env) == env.race = "none" /\ env.mkdir = "ok"

-----------------------------------------------------------------------------
(* C1: create_backup(X) returning true, then the live file F deleted, then
   restore_from_backup(X): restore returns true and F's path holds F's content
   as it was at the backup, whatever other identities have in the backup tree.
   Checked under SpecPair; the code breaks it. *)
C1_RoundTrip ==
    (trip.stage = 3 /\ last.op = "restore_from_backup") =>
        /\ last.res = "true"
        /\ Exists(fs, trip.path)
        /\ fs[trip.path].data = trip.data

(* C2: after clean_old_backups(keep_count = 5) with no deletion failure every
   identity owns at most 5 backup entries, whatever their timestamps.
   Checked under SpecRetention; the code breaks it. *)
C2_RetentionBound ==
    (/\ last.op = "clean_old_backups"
     /\ last.keep = DefaultKeepCount
     /\ last.res = "count"
     /\ last.env.stuck = {}) =>
        \A X \in Names : Cardinality(OwnedBy(fs, X)) <= DefaultKeepCount

(* C3: clean_old_backups(keep_count) leaves an identity that had more than
   keep_count entries exactly the keep_count entries of greatest modification
   time, and leaves every other identity's entries as they were.
   Checked under SpecRetention; the code breaks it. *)
C3_RetentionChoice ==
    [][(/\ Idle
        /\ last'.op = "clean_old_backups"
        /\ last'.res = "count"
        /\ last'.env.stuck = {}) =>
           \A X \in Names :
               LET before == OwnedBy(fs, X)
                   after == OwnedBy(fs', X)
               IN  /\ after \subseteq before
                   /\ \A p \in after : fs'[p] = fs[p]
                   /\ IF Cardinality(before) > last'.keep
                      THEN /\ Cardinality(after) = last'.keep
                           /\ \A a \in after : \A b \in before \ after :
                                  fs[a].mtime >= fs[b].mtime
                      ELSE after = before]_vars

(* C4: restore_from_backup(Y, use_latest = True) goes through the candidates by
   descending modification time, passes over each one that fails the integrity
   check or whose copy fails, restores from the first that does neither, and
   returns false only when every candidate failed; the live file then holds
   the content of the candidate restored.  Checked under SpecRestore. *)
C4_RestoreCandidateOrder ==
    (/\ last.op = "restore_from_backup"
     /\ last.flag
     /\ last.res \in {"true", "false"}) =>
        LET order == last.order
            Fails(i) == ~ValidData(fs[order[i]].data) \/ i \in last.env.bad
        IN  /\ {order[i] : i \in 1..Len(order)} = Matching(fs, last.name)
            /\ \A i, j \in 1..Len(order) :
                   i < j => fs[order[i]].mtime >= fs[order[j]].mtime
            /\ last.res = "true" =>
                   \E i \in 1..Len(order) :
                       /\ order[i] = last.src
                       /\ ~Fails(i)
                       /\ \A j \in 1..(i - 1) : Fails(j)
                       /\ last.dst = LivePath(last.src.dir, last.name)
                       /\ Exists(fs, last.dst)
                       /\ fs[last.dst] = fs[last.src]
            /\ last.res = "false" =>
                   /\ \A i \in 1..Len(order) : Fails(i)
                   /\ last.tried = Len(order)

\* three backups, the newest damaged and the second valid: restored from the second
C4_Witness ==
    /\ last.op = "restore_from_backup"
    /\ last.flag
    /\ last.env = NoEnv
    /\ Len(last.order) = 3
    /\ fs[last.order[1]].mtime > fs[last.order[2]].mtime
    /\ ~ValidData(fs[last.order[1]].data)
    /\ ValidData(fs[last.order[2]].data)
    /\ last.res = "true"
    /\ last.src = last.order[2]
    /\ fs[last.dst].data = fs[last.order[2]].data

(* C5: _verify_session_integrity returns true only for an existing file of at
   least 1024 bytes that opens as a database with a schema object; it returns
   false for a missing path, an empty file, 2000 bytes without structure, a
   database without schema objects, and whenever an exception occurs.
   Checked under SpecVerify; the code breaks the last part. *)
C5_IntegrityGate ==
    last.op = "_verify_session_integrity" =>
        /\ last.res \in {"true", "false"}
        /\ last.res = "true" => Exists(fs, last.src) /\ ValidData(fs[last.src].data)
        /\ ~Exists(fs, last.src) => last.res = "false"
        /\ Exists(fs, last.src) =>
               (fs[last.src].data \in {EmptyData, GarbageData, NoTablesData}
                    => last.res = "false")
        /\ last.env.venv = "dberror" => last.res = "false"

(* C6: create_backup whose source is locked at the first two probes and free at
   the third returns true and writes the backup entry; locked at all three
   probes it returns false and writes nothing.  Checked under SpecCreate. *)
C6_LockedSourceRetry ==
    [][(/\ Idle
        /\ last'.op = "create_backup"
        /\ last'.verified = "true"
        /\ OnlyPlan(last'.env)) =>
           /\ last'.env.plan = <<"locked", "locked">> =>
                  /\ last'.res = "true"
                  /\ Exists(fs', last'.dst)
                  /\ IsBackupFile(last'.dst)
                  /\ fs'[last'.dst] = fs[last'.src]
           /\ last'.env.plan = <<"locked", "locked", "locked">> =>
                  /\ last'.res = "false"
                  /\ fs' = fs]_vars

C6_Witness ==
    /\ last.op = "create_backup"
    /\ OnlyPlan(last.env)
    /\ last.env.plan = <<"locked", "locked">>
    /\ last.res = "true"
    /\ last.sleeps = 2
    /\ Exists(fs, last.dst)

(* C7: restore_from_backup(X) with no backup file matching X in any backup
   directory returns false, raises nothing and leaves every file as it was.
   Checked under SpecLayout. *)
C7_NoBackupsRestoreFails ==
    [][(/\ Idle
        /\ last'.op = "restore_from_backup"
        /\ Matching(fs, last'.name) = {}) =>
           /\ last'.res = "false"
           /\ fs' = fs]_vars

\* the other identity has a backup, this one has none
C7_Witness ==
    /\ last.op = "restore_from_backup"
    /\ Matching(fs, last.name) = {}
    /\ BackupFiles(fs) # {}
    /\ last.res = "false"

(* C8: create_backup writes only into the backup directory that mirrors the
   layout of the live file it found, and restore_from_backup writes only into
   the live directory that mirrors the layout of the backup entry it copies.
   Checked under SpecLayout. *)
C8_LayoutTransparency ==
    [][Idle =>
           /\ last'.op = "create_backup" =>
                  \A p \in Written(fs, fs') \cup last'.wrote :
                      /\ p.root = "backups"
                      /\ p.dir = last'.src.dir
                      /\ last'.src = get_session_file_path(fs, last'.name)
           /\ last'.op = "restore_from_backup" =>
                  \A p \in Written(fs, fs') \cup last'.wrote :
                      /\ p.root = "sessions"
                      /\ \E q \in Matching(fs, last'.name) :
                             q.dir = p.dir /\ fs'[p].data = fs[q].data]_vars

\* a backup entry of the telethon mirror restored into the telethon layout
C8_Witness ==
    /\ last.op = "restore_from_backup"
    /\ last.res = "true"
    /\ last.src.dir = "telethon"
    /\ last.dst.dir = "telethon"
    /\ \E p \in BackupFiles(fs) : p.dir = "."

(* C9: no call of the store lets an exception escape.
   Checked under Spec; the code breaks it. *)
C9_NoExceptionEscapes == last.res # "raise"

(* C10: create_backup returns false and leaves the backup tree as it was when
   there is no live file or the live file fails the integrity check, and what
   a successful create_backup leaves in the backup tree passes the check.
   Checked under Spec; the code breaks the last part. *)
C10_BackupRefusal ==
    last.op = "create_backup" =>
        /\ (last.src = None \/ last.verified = "false") =>
               last.res = "false" /\ last.wrote = {}
        /\ last.res = "true" => ValidData(fs[last.dst].data)

(* C11: create_backup returns true exactly when the byte copy of the main file
   succeeded in one of at most three attempts; a failing copy of the -wal or
   the -shm sidecar changes neither the result nor the main file copied.
   Checked under SpecSidecar. *)
C11_SidecarsBestEffort ==
    [][(/\ Idle
        /\ last'.op = "create_backup"
        /\ last'.verified = "true"
        /\ OnlyPlan(last'.env)) =>
           LET clean == create_backup(fs, last'.name, last'.flag,
                                      [last'.env EXCEPT !.sidefail = {}], now)
           IN  /\ (last'.res = "true") = last'.copied
               /\ last'.attempts <= max_retries
               /\ last'.res = clean.res
               /\ last'.res = "true" =>
                      /\ Exists(fs', last'.dst)
                      /\ fs'[last'.dst] = clean.fs[last'.dst]]_vars

\* the source has a log, both sidecar copies fail, the backup is written without them
C11_Witness ==
    /\ last.op = "create_backup"
    /\ last.env.sidefail = {WAL, SHM}
    /\ Exists(fs, Side(last.src, WAL))
    /\ last.res = "true"
    /\ Exists(fs, last.dst)
    /\ ~Exists(fs, Side(last.dst, WAL))

(* C12: every call of _safe_sqlite_copy makes at most three passes, probe and
   copy sharing the one counter, sleeps at most twice between them, and
   returns; create_backup makes at most three passes and restore_from_backup
   at most three for each candidate it tries.  Checked under SpecLoop. *)
C12_BoundedRetry ==
    /\ [](last.op = "_safe_sqlite_copy" =>
             last.attempts <= max_retries /\ last.sleeps <= max_retries - 1)
    /\ [](last.op = "create_backup" =>
             last.attempts <= max_retries /\ last.sleeps <= max_retries - 1)
    /\ [](last.op = "restore_from_backup" =>
             /\ last.attempts <= max_retries * Len(last.order)
             /\ last.sleeps <= (max_retries - 1) * Len(last.order))
    /\ (Running ~> (last.op = "_safe_sqlite_copy" /\ last.res \in {"true", "false"}))

\* the source stayed locked: three passes, two sleeps, false
C12_Witness ==
    /\ last.op = "_safe_sqlite_copy"
    /\ last.env.plan = <<"locked", "locked", "locked">>
    /\ last.res = "false"
    /\ last.attempts = max_retries
    /\ last.sleeps = max_retries - 1

(* C13: when a public operation returns, every database connection and file
   handle it opened has been closed, also when the integrity query raised
   after the connection was opened.  Violated under SpecLoop. *)
C13_HandlesClosed ==
    last.op \in {"create_backup", "restore_from_backup"} => last.handles = {}

(* C14: get_session_file_path(X) returns the flat path when X.session exists
   there, else the telethon path when it exists there, else the pyrogram path
   when it exists there, else none; it changes no file.  Checked under
   SpecLocate. *)
C14_LocateOrder ==
    [][last'.op = "get_session_file_path" /\ last.op = "none" =>
          LET X == last'.name
              flat == LivePath(".", X)
              telethon == LivePath("telethon", X)
              pyrogram == LivePath("pyrogram", X)
          IN  /\ fs' = fs
              /\ last'.src = IF Exists(fs, flat) THEN flat
                             ELSE IF Exists(fs, telethon) THEN telethon
                             ELSE IF Exists(fs, pyrogram) THEN pyrogram
                             ELSE None
              /\ (last'.res = "none") = (last'.src = None)]_vars

\* the name exists in all three layouts and the flat path is returned
C14_Witness ==
    /\ last.op = "get_session_file_path"
    /\ \A d \in LayoutSet : Exists(fs, LivePath(d, last.name))
    /\ last.src = LivePath(".", last.name)

(* C15: for a name that contains ".." or a path separator,
   get_session_file_path returns none or a path inside the live layout
   directories, and create_backup and restore_from_backup read and write no
   file outside the three live layout directories and the three backup
   subdirectories.  Violated under SpecTraversal. *)
C15_TraversalRejected ==
    LET Inside(p) == \/ p = None
                     \/ p.root \in {"sessions", "backups"} /\ p.dir \in LayoutSet
    IN  last.op \in {"get_session_file_path", "create_backup", "restore_from_backup"}
            => /\ Inside(last.src)
               /\ Inside(last.dst)
               /\ \A p \in last.wrote : Inside(p)

(* C16: restore_from_backup leaves every backup entry untouched: each backup
   main file and each backup sidecar exists after the call with the content
   it had before, whatever the call returns.  Violated under SpecWal. *)
C16_BackupsUntouched ==
    [][last'.op = "restore_from_backup" /\ last.op = "none" =>
          \A p \in DOMAIN fs :
              p.root = "backups" => Exists(fs', p) /\ fs'[p].data = fs[p].data]_vars

(* C17: backup_exists(X) returns true exactly when a backup file whose name
   starts with X and ends with the backup extension exists in a backup
   directory, whether or not those files pass the integrity check; it changes
   no file; and when it returns false, restore_from_backup(X) called in the
   same state returns false, under every order and disturbance.  Checked under
   SpecExists. *)
C17_BackupExists ==
    [][last'.op = "backup_exists" /\ last.op = "none" =>
          LET X == last'.name
          IN  /\ (last'.res = "true") = (Matching(fs, X) # {})
              /\ last'.res \in {"true", "false"}
              /\ \A p \in Matching(fs, X) : p.dir \in LayoutSet
              /\ fs' = fs
              /\ last'.res = "false" =>
                     \A use_latest \in BOOLEAN :
                         \A order \in Orders(fs, all_backups(fs, X), use_latest) :
                             \A env \in RestoreEnvs(fs, order, Faults) :
                                 restore_from_backup(fs, X, use_latest, order,
                                                     env, now).res = "false"]_vars

\* true although every matching file is damaged; the other identity has none
C17_Witness ==
    /\ last.op = "backup_exists"
    /\ last.res = "true"
    /\ \A p \in Matching(fs, last.name) : fs[p].data \in Damage
    /\ BackupFiles(fs) = Matching(fs, last.name)

(* C18: create_all_backups(auto_cleanup) returns the number of its
   create_backup calls that returned true, not the number it made, and it runs
   clean_old_backups exactly when auto_cleanup is true and that number is at
   least 1.  Checked under SpecAll. *)
C18_CountAndCleanup ==
    [][last'.op = "create_all_backups" /\ last.op = "none" =>
          LET calls == last'.calls
              succeeded == {i \in 1..Len(calls) : calls[i].res = "true"}
          IN  /\ Len(calls) = Cardinality(LiveFiles(fs))
              /\ \A i \in 1..Len(calls) :
                     (calls[i].res = "true") =
                         (/\ calls[i].dst # None
                          /\ i \notin last'.env.bad)
              /\ last'.res = "count"
              /\ last'.count = Cardinality(succeeded)
              /\ last'.cleaned = (last'.flag /\ Cardinality(succeeded) >= 1)]_vars

\* three calls were made, some returned true and some false, and the sweep ran
C18_Witness ==
    /\ last.op = "create_all_backups"
    /\ Len(last.calls) = 3
    /\ last.count \in {1, 2}
    /\ last.cleaned

(* C19: create_all_backups backs up every live credential file: each file
   name.session present in a layout when the call starts is the source of one
   of its create_backup calls, and if it is valid and its copy is not
   disturbed, a backup entry with its content lies in the mirrored backup
   directory afterwards, also when the name exists in several layouts.
   Violated under SpecAll. *)
C19_EveryFileBackedUp ==
    [][last'.op = "create_all_backups" /\ last.op = "none" =>
          \A p \in LiveFiles(fs) :
              /\ Cardinality({i \in 1..Len(last'.calls) : last'.calls[i].src = p}) = 1
              /\ (/\ _verify_session_integrity(fs, p, "none", "no", now).res = "true"
                  /\ last'.env = NoEnv)
                     => \E q \in BackupFiles(fs') :
                            /\ q.dir = p.dir
                            /\ fs'[q].data = fs[p].data]_vars

(* C20: the owning identity that clean_old_backups infers from the name of a
   backup file that create_backup(X) produced, with or without a timestamp, is
   X.  Violated under SpecCreate. *)
C20_OwnerRoundTrip ==
    last.op = "create_backup" /\ last.res = "true"
        => inferred_session_name(last.dst.base) = last.name

(* C21: a failure of the checkpoint step of _safe_sqlite_copy, of any kind, is
   only logged: a pass that got past the lock probe and whose copy meets no
   fault of its own copies the main file in that same pass.  Violated under
   SpecLoop. *)
C21_CheckpointBestEffort ==
    [][(/\ last.op = "_safe_sqlite_copy"
        /\ last.res = "copying"
        /\ FaultAt(last.env.plan, last.attempts - 1) = "ok") =>
           /\ last'.copied
           /\ Exists(fs', last.dst)
           /\ fs'[last.dst].data = fs'[last.src].data]_vars

(* C22: every create_backup(X, use_timestamp=True) that returns true adds one
   new backup entry and overwrites none, however close in time two calls are;
   create_backup(X, use_timestamp=False) writes the one name X.session.backup.
   Violated under SpecWal. *)
C22_GenerationsCoexist ==
    [][(/\ last.op = "none"
        /\ last'.op = "create_backup"
        /\ last'.res = "true") =>
           IF last'.flag
           THEN /\ ~Exists(fs, last'.dst)
                /\ BackupFiles(fs') = BackupFiles(fs) \cup {last'.dst}
                /\ \A p \in BackupFiles(fs) : fs'[p] = fs[p]
           ELSE last'.dst.base = last'.name \o <<SESSION_BACKUP>>]_vars

(* C23: create_backup and create_all_backups never create a live credential
   file: whatever an external process deletes between two steps of the call,
   no path the call created or overwrote is a live credential path.  Violated
   under SpecCreate. *)
C23_NeverCreatesLive ==
    last.op \in {"create_backup", "create_all_backups"}
        => \A p \in last.wrote : ~IsLiveFile(p)

(* C24: restore_from_backup(X) copies to X's live path only a backup entry made
   from X's own credential file, never the entry of another identity whose
   name begins with X, and such an entry does not make backup_exists(X) true.
   Violated under SpecPair. *)
C24_IdentityIsolation ==
    /\ (last.op = "restore_from_backup" /\ last.res = "true")
           => /\ OwnName(last.src.base, last.name)
              /\ fs[last.dst].data.owner = last.name
    /\ (last.op = "backup_exists" /\ last.res = "true")
           => OwnedBy(fs, last.name) # {}

(* C25: whenever restore_from_backup(X) returns true, get_session_file_path(X)
   called right afterwards resolves to the file just restored, and that file
   passes _verify_session_integrity, also when a corrupt X.session lies in a
   layout searched earlier.  Violated under SpecUsable. *)
C25_RestoreMakesUsable ==
    (last.op = "restore_from_backup" /\ last.res = "true")
        => /\ get_session_file_path(fs, last.name) = last.dst
           /\ _verify_session_integrity(fs, last.dst, "none", "no", now).res = "true"

(* C26: for every keep_count of at least 1, an identity that owns a backup
   entry before clean_old_backups(keep_count) runs owns one afterwards; the
   legacy backups of identities that differ only in the digits after the last
   underscore are not counted against one quota.  Violated under SpecStrand. *)
C26_CleanupNeverStrands ==
    [][(/\ last.op = "none"
        /\ last'.op = "clean_old_backups"
        /\ last'.keep >= 1) =>
           \A X \in StrandNames :
               OwnedBy(fs, X) # {} => OwnedBy(fs', X) # {}]_vars

(* C27: a backup entry written by a create_backup call that returned true during
   create_all_backups(auto_cleanup=True) is not deleted by the sweep of that
   same call, whatever the modification time of the live file it was copied
   from.  Violated under SpecFresh. *)
C27_FreshBackupSurvives ==
    [][(/\ last.op = "none"
        /\ last'.op = "create_all_backups"
        /\ last'.flag) =>
           \A i \in 1..Len(last'.calls) :
               last'.calls[i].res = "true" => Exists(fs', last'.calls[i].dst)]_vars

(* C28: when restore_from_backup(X) returns false, every live path X.session
   in the three layouts exists after the call exactly if it existed before,
   with the content it had; a copy that breaks off part-way leaves no partial
   or replaced file there.  Violated under SpecPartial. *)
C28_FailedRestoreChangesNothing ==
    [][(/\ last.op = "none"
        /\ last'.op = "restore_from_backup"
        /\ last'.res = "false") =>
           \A d \in LayoutSet :
               LET p == LivePath(d, last'.name)
               IN  /\ Exists(fs', p) = Exists(fs, p)
                   /\ Exists(fs, p) => fs'[p].data = fs[p].data]_vars

(* C29: after restore_from_backup(X) returns true, every sidecar (-wal, -shm)
   beside the restored live file is a copy of the same sidecar of the backup
   entry that was restored, and a sidecar the entry does not have is not
   beside the live file; after create_backup(X, use_timestamp=False) returns
   true, the legacy backup has no sidecar that its source does not have.
   Violated under SpecWal. *)
C29_NoStaleSidecars ==
    (/\ last.res = "true"
     /\ \/ last.op = "restore_from_backup"
        \/ last.op = "create_backup" /\ ~last.flag)
        => \A x \in {WAL, SHM} :
               Exists(fs, Side(last.dst, x))
                   => /\ Exists(fs, Side(last.src, x))
                      /\ fs[Side(last.dst, x)].data = fs[Side(last.src, x)].data

(* C30: restore_from_backup(X) writes a live path X.session only when the file
   there is missing or fails _verify_session_integrity; a live file that
   passes the check when the call starts is not written and has the same
   content when the call returns.  Violated under SpecLayout. *)
C30_RestoreSparesValidLive ==
    [][(/\ last.op = "none"
        /\ last'.op = "restore_from_backup") =>
           \A d \in LayoutSet :
               LET p == LivePath(d, last'.name)
               IN  (/\ Exists(fs, p)
                    /\ _verify_session_integrity(fs, p, "none", "no", now).res = "true")
                       => /\ p \notin last'.wrote
                          /\ fs'[p].data = fs[p].data]_vars

====
